---- MODULE Spec2Model ----
(***************************************************************************)
(* Model of src/nuimages_dataset.py: the NuImagesDataset object (its       *)
(* construction, __len__, __getitem__ with the two per-image caches) and   *)
(* the rasterizer get_instance_mask.                                       *)
(*                                                                         *)
(* Python values are modelled as follows.  A list is a sequence; a list    *)
(* index stays 0-based where the code stores it (samples_with_objects,     *)
(* kept_indices), so element i of a list s is s[i + 1].  A value that may  *)
(* be None is a sequence of length 0 (None) or 1 (the value).  An H x W    *)
(* array is a function on Pixels(size); an encoded mask is the set of      *)
(* pixels its decoding sets to 1.                                          *)
(***************************************************************************)
EXTENDS Integers, Sequences, FiniteSets, TLC

\* Largest number of object annotations in a dataset.
MaxAnns == 2

None == <<>>
Some(v) == <<v>>
Range(s) == {s[i] : i \in DOMAIN s}

----------------------------------------------------------------------------
(* The input: a NuImages database.                                         *)

\* The two camera images: their sample_data tokens and <<width, height>>.
SdTokens == {1, 2}
ImageSize(sd_token) == IF sd_token = 1 THEN <<2, 1>> ELSE <<1, 2>>

\* image.size of the opened image file, as (width, height).
Pixels(size) == {<<y, x>> : y \in 0..(size[2] - 1), x \in 0..(size[1] - 1)}

\* nuimages.category
Categories ==
    << [token |-> 1, name |-> "vehicle.car"],
       [token |-> 2, name |-> "animal"] >>

\* utils.utils: fine name -> coarse name, coarse name -> class id.
\* A fine name absent from NAME_MAPPING is unmapped.
NAME_MAPPING == [n \in {"vehicle.car"} |-> "vehicle"]
CLASS_TO_ID == [c \in {"vehicle"} |-> 1]

\* Boxes [xmin, ymin, xmax, ymax]: one proper box, one of negative width
\* and one of zero height.
GoodBoxes == {<<0, 0, 1, 1>>}
BadBoxes == {<<10, 10, 5, 20>>, <<0, 3, 4, 3>>}

\* ann['mask']: None or an encoded mask of the image's size.
MaskChoices(sd_token) ==
    {None} \cup {Some(m) : m \in (SUBSET Pixels(ImageSize(sd_token))) \ {{}}}

\* What an annotation can be, its token apart.  A degenerate box comes with
\* a mapped category and a full mask, so that it would show if it were kept.
AnnChoices ==
    UNION { {[sample_data_token |-> sd, category_token |-> c, bbox |-> b, mask |-> m] :
                c \in {1, 2}, b \in GoodBoxes, m \in MaskChoices(sd)}
            \cup
            {[sample_data_token |-> sd, category_token |-> 1, bbox |-> b,
              mask |-> Some(Pixels(ImageSize(sd)))] : b \in BadBoxes}
          : sd \in SdTokens }

Perms(n) == {f \in [1..n -> 1..n] : \A i, j \in 1..n : f[i] = f[j] => i = j}

WithToken(a, t) ==
    [token |-> t, sample_data_token |-> a.sample_data_token,
     category_token |-> a.category_token, bbox |-> a.bbox, mask |-> a.mask]

\* The object_ann table of the annotations as, given the tokens p in turn:
\* distinct tokens, in any order.
AnnTable(as, p) == [i \in DOMAIN as |-> WithToken(as[i], p[i])]

NuImages(object_ann) ==
    [sample |-> <<[key_camera_token |-> 1], [key_camera_token |-> 2]>>,
     category |-> Categories,
     object_ann |-> object_ann]

----------------------------------------------------------------------------
(* NuImagesDataset.__init__                                                *)

HasAnn(nu) == Len(nu.object_ann) # 0

\* A constructor that forgets to drop the samples without annotations.
SamplesWithObjects_KeepAll(nu, rm_empty) == [i \in 1..Len(nu.sample) |-> i - 1]

SamplesWithObjects(nu, rm_empty) ==
    LET all == [i \in 1..Len(nu.sample) |-> i - 1]
        sd_tokens_with_objects == {o.sample_data_token : o \in Range(nu.object_ann)}
        keep(i) == nu.sample[i + 1].key_camera_token \in sd_tokens_with_objects
    IN  IF rm_empty /\ HasAnn(nu) THEN SelectSeq(all, keep) ELSE all

\* A filter that tests the width only.
BoxOk_WidthOnly(b) == b[3] - b[1] > 0

\* w > 0 and h > 0
BoxOk(b) == (b[3] - b[1] > 0) /\ (b[4] - b[2] > 0)

ObjectAnnsDict(nu) ==
    [sd \in {o.sample_data_token : o \in Range(nu.object_ann)} |->
        LET mine(o) == o.sample_data_token = sd /\ BoxOk(o.bbox)
        IN  SelectSeq(nu.object_ann, mine)]

CatTokenToLabel(nu) ==
    [t \in {c.token : c \in Range(nu.category)} |->
        LET cat == CHOOSE c \in Range(nu.category) : c.token = t
        IN  IF cat.name \in DOMAIN NAME_MAPPING
            THEN Some(CLASS_TO_ID[NAME_MAPPING[cat.name]])
            ELSE None]

----------------------------------------------------------------------------
(* get_instance_mask                                                       *)

RECURSIVE InsertByToken(_, _)
InsertByToken(a, s) ==
    IF s = <<>> THEN <<a>>
    ELSE IF a.token < s[1].token THEN <<a>> \o s
    ELSE <<s[1]>> \o InsertByToken(a, Tail(s))

\* A rasterizer that draws the annotations in the order given.
SortByToken_Unsorted(s) == s

\* sorted(object_anns, key=token): a stable sort.
RECURSIVE SortByToken(_)
SortByToken(s) ==
    IF s = <<>> THEN <<>>
    ELSE InsertByToken(s[Len(s)], SortByToken(SubSeq(s, 1, Len(s) - 1)))

\* mask_decode: the binary array of an encoded mask.
MaskDecode(m, size) == [p \in Pixels(size) |-> IF p \in m THEN 1 ELSE 0]

\* A painting that leaves the pixels already painted alone.
Paint_FirstWins(layer, mask, i) ==
    [p \in DOMAIN layer |-> IF mask[p] = 1 /\ layer[p] = 0 THEN i ELSE layer[p]]

\* instanceseg_mask[mask == 1] = i
Paint(layer, mask, i) == [p \in DOMAIN layer |-> IF mask[p] = 1 THEN i ELSE layer[p]]

\* One turn of the drawing loop, for the annotation enumerated as i.
DrawAnn(layer, ann, i, size) ==
    IF ann.mask = None THEN layer
    ELSE Paint(layer, MaskDecode(ann.mask[1], size), i)

RECURSIVE DrawFrom(_, _, _, _)
DrawFrom(layer, sorted, i, size) ==
    IF i > Len(sorted) THEN layer
    ELSE DrawFrom(DrawAnn(layer, sorted[i], i, size), sorted, i + 1, size)

GetInstanceMask(size, object_anns) ==
    DrawFrom([p \in Pixels(size) |-> 0], SortByToken(object_anns), 1, size)

----------------------------------------------------------------------------
(* NuImagesDataset.__getitem__: its parts                                  *)

\* The loop filling kept_indices and kept_labels.
ComputeKept(object_anns, ct2l) ==
    LET idxs == [i \in 1..Len(object_anns) |-> i - 1]
        mapped(i) == ct2l[object_anns[i + 1].category_token] # None
        kept_indices == SelectSeq(idxs, mapped)
    IN  << kept_indices,
           [j \in 1..Len(kept_indices) |->
                ct2l[object_anns[kept_indices[j] + 1].category_token][1]] >>

\* An unpacking that takes the indices for the labels.
UnpackKept_Swapped(kept) == <<kept[1], kept[1]>>

\* kept_indices, kept_labels = kept
UnpackKept(kept) == <<kept[1], kept[2]>>

\* The target of an image with nothing to keep; size is image.size.
EmptyTarget(idx, size) ==
    [boxes |-> <<>>, labels |-> <<>>,
     masks |-> [shape |-> <<0, size[2], size[1]>>, rows |-> <<>>],
     image_id |-> idx, area |-> <<>>, iscrowd |-> <<>>]

BoxArea(b) == (b[4] - b[2]) * (b[3] - b[1])

\* The target of an image with something to keep.
FullTarget(idx, size, object_anns, kept_indices, kept_labels, instance_mask) ==
    LET boxes == [j \in 1..Len(kept_indices) |-> object_anns[kept_indices[j] + 1].bbox]
        rows == [j \in 1..Len(kept_indices) |->
                    [p \in DOMAIN instance_mask |->
                        IF instance_mask[p] = kept_indices[j] + 1 THEN 1 ELSE 0]]
    IN  [boxes |-> boxes, labels |-> kept_labels,
         masks |-> [shape |-> <<Len(rows), size[2], size[1]>>, rows |-> rows],
         image_id |-> idx,
         area |-> [j \in 1..Len(boxes) |-> BoxArea(boxes[j])],
         iscrowd |-> [j \in 1..Len(object_anns) |-> 0]]

\* What a call returns or raises.
Returned(idx, target) == [idx |-> idx, kind |-> "Target", target |-> Some(target)]
ReturnedNone(idx) == [idx |-> idx, kind |-> "NoTarget", target |-> None]
Raised(idx, what) == [idx |-> idx, kind |-> what, target |-> None]

\* A store that, on a key already filled, extends the lists held there.
StoreKept_Extend(cache, sd_token, kept) ==
    IF cache[sd_token] = None
    THEN [cache EXCEPT ![sd_token] = Some(kept)]
    ELSE [cache EXCEPT ![sd_token] =
            Some(<<cache[sd_token][1][1] \o kept[1], cache[sd_token][1][2] \o kept[2]>>)]

\* self._kept_cache[sd_token] = (kept_indices, kept_labels)
StoreKept(cache, sd_token, kept) == [cache EXCEPT ![sd_token] = Some(kept)]

\* self._inst_mask_cache[sd_token] = instance_mask
StoreInstanceMask(cache, sd_token, instance_mask) ==
    [cache EXCEPT ![sd_token] = Some(instance_mask)]

----------------------------------------------------------------------------
\* The workers that may call into one shared dataset object.
NumWorkers == 2
Workers == 1..NumWorkers

VARIABLES
    nuimages,              \* the database handed to the constructor
    remove_empty,          \* the constructor's remove_empty argument
    has_ann,               \* self.has_ann
    samples_with_objects,  \* self.samples_with_objects
    object_anns_dict,      \* self.object_anns_dict
    cat_token_to_label,    \* self._cat_token_to_label
    kept_cache,            \* self._kept_cache
    inst_mask_cache,       \* self._inst_mask_cache
    first,                 \* per index, what the first call on it returned
    last,                  \* what the latest call returned
    repeated,              \* whether the latest call was a later call on its index
    rast_first,            \* per image, what the first rasterizer call returned
    rast,                  \* the latest rasterizer call: its list and its layer
    pc,                    \* per worker, where it is in __getitem__
    widx,                  \* per worker, the idx of its call
    wkept,                 \* per worker, its (kept_indices, kept_labels)
    wmask,                 \* per worker, the instance_mask it computed
    ret                    \* per worker, what its call returned

dataset == <<nuimages, remove_empty, has_ann, samples_with_objects,
             object_anns_dict, cat_token_to_label>>
caches == <<kept_cache, inst_mask_cache>>
seqvars == <<first, last, repeated>>
rastvars == <<rast_first, rast>>
concvars == <<pc, widx, wkept, wmask, ret>>
vars == <<dataset, caches, seqvars, rastvars, concvars>>

\* len(dataset)
Length == Len(samples_with_objects)

SdTokenAt(idx) == nuimages.sample[samples_with_objects[idx + 1] + 1].key_camera_token

NoCache == [sd \in SdTokens |-> None]

\* The state of a dataset object right after NuImagesDataset(nu, None, rm_empty),
\* with no call made on it yet.
Constructed(nu, rm_empty) ==
    /\ nuimages = nu
    /\ remove_empty = rm_empty
    /\ has_ann = HasAnn(nu)
    /\ samples_with_objects = SamplesWithObjects(nu, rm_empty)
    /\ object_anns_dict = ObjectAnnsDict(nu)
    /\ cat_token_to_label = CatTokenToLabel(nu)
    /\ kept_cache = NoCache
    /\ inst_mask_cache = NoCache
    /\ first = [i \in 0..(Len(SamplesWithObjects(nu, rm_empty)) - 1) |-> None]
    /\ last = None
    /\ repeated = FALSE
    /\ rast_first = [sd \in SdTokens |-> None]
    /\ rast = None
    /\ pc = [w \in Workers |-> "idle"]
    /\ widx = [w \in Workers |-> 0]
    /\ wkept = [w \in Workers |-> None]
    /\ wmask = [w \in Workers |-> None]
    /\ ret = [w \in Workers |-> None]

Init ==
    \E n \in 0..MaxAnns, rm_empty \in BOOLEAN :
      \E as \in [1..n -> AnnChoices], p \in Perms(n) :
        Constructed(NuImages(AnnTable(as, p)), rm_empty)

\* The kept pair __getitem__ works with, given the kept cache kc.
KeptFor(sd_token, kc) ==
    IF kc[sd_token] = None
    THEN ComputeKept(object_anns_dict[sd_token], cat_token_to_label)
    ELSE UnpackKept(kc[sd_token][1])

\* The instance mask __getitem__ works with, given the mask cache mc.
InstanceMaskFor(sd_token, mc) ==
    IF mc[sd_token] = None
    THEN GetInstanceMask(ImageSize(sd_token), object_anns_dict[sd_token])
    ELSE mc[sd_token][1]

\* What dataset[idx] returns or raises, given the caches kc and mc.
GetItemResult(idx, kc, mc) ==
    LET sd_token == SdTokenAt(idx)
        size == ImageSize(sd_token)
    IN  IF ~has_ann THEN ReturnedNone(idx)
        ELSE IF sd_token \notin DOMAIN object_anns_dict THEN Raised(idx, "KeyError")
        ELSE LET kept == KeptFor(sd_token, kc)
             IN  IF kept[1] = <<>> THEN Returned(idx, EmptyTarget(idx, size))
                 ELSE Returned(idx,
                        FullTarget(idx, size, object_anns_dict[sd_token],
                                   kept[1], kept[2], InstanceMaskFor(sd_token, mc)))

\* The kept cache after dataset[idx], given that it was kc before.
KeptCacheAfter(idx, kc) ==
    LET sd_token == SdTokenAt(idx)
    IN  IF has_ann /\ sd_token \in DOMAIN object_anns_dict /\ kc[sd_token] = None
        THEN StoreKept(kc, sd_token, KeptFor(sd_token, kc))
        ELSE kc

\* The mask cache after dataset[idx], given the caches kc and mc before.
MaskCacheAfter(idx, kc, mc) ==
    LET sd_token == SdTokenAt(idx)
    IN  IF /\ has_ann
           /\ sd_token \in DOMAIN object_anns_dict
           /\ KeptFor(sd_token, kc)[1] # <<>>
           /\ mc[sd_token] = None
        THEN StoreInstanceMask(mc, sd_token, InstanceMaskFor(sd_token, mc))
        ELSE mc

\* dataset[idx], the whole call, made by a single caller.
GetItem(idx) ==
    /\ idx \in 0..(Length - 1)
    /\ last' = Some(GetItemResult(idx, kept_cache, inst_mask_cache))
    /\ first' = IF first[idx] = None THEN [first EXCEPT ![idx] = last'] ELSE first
    /\ repeated' = (first[idx] # None)
    /\ kept_cache' = KeptCacheAfter(idx, kept_cache)
    /\ inst_mask_cache' = MaskCacheAfter(idx, kept_cache, inst_mask_cache)
    /\ UNCHANGED <<dataset, rastvars, concvars>>

Next == \E idx \in 0..(Length - 1) : GetItem(idx)

Spec == Init /\ [][Next]_vars

----------------------------------------------------------------------------
(* get_instance_mask called on the filtered annotations of one image:      *)
(* first in the order of the index, as __getitem__ passes them (the index  *)
(* itself lists them in any order of tokens), then in any order.           *)

Rasterize(sd_token, p) ==
    LET object_anns == object_anns_dict[sd_token]
        anns == [i \in DOMAIN object_anns |-> object_anns[p[i]]]
        call == [sd_token |-> sd_token, anns |-> anns,
                 layer |-> GetInstanceMask(ImageSize(sd_token), anns)]
    IN  /\ rast_first[sd_token] = None => \A i \in DOMAIN p : p[i] = i
        /\ rast' = Some(call)
        /\ rast_first' = IF rast_first[sd_token] = None
                         THEN [rast_first EXCEPT ![sd_token] = Some(call)]
                         ELSE rast_first
        /\ UNCHANGED <<dataset, caches, seqvars, concvars>>

NextRaster ==
    \E sd_token \in DOMAIN object_anns_dict :
        \E p \in Perms(Len(object_anns_dict[sd_token])) : Rasterize(sd_token, p)

SpecRaster == Init /\ [][NextRaster]_vars

----------------------------------------------------------------------------
(* Several workers calling __getitem__ on one shared dataset object.  A    *)
(* step is one access to a shared cache with the local work that follows   *)
(* it; a dictionary access is atomic.                                      *)

\* The annotations of the datasets the workers share: proper boxes, full masks.
ConcAnnChoices ==
    {[sample_data_token |-> sd, category_token |-> c, bbox |-> <<0, 0, 1, 1>>,
      mask |-> Some(Pixels(ImageSize(sd)))] : sd \in SdTokens, c \in {1, 2}}

InitConc ==
    \E n \in 0..MaxAnns, rm_empty \in BOOLEAN :
      \E as \in [1..n -> ConcAnnChoices], p \in Perms(n) :
        Constructed(NuImages(AnnTable(as, p)), rm_empty)

WSd(w) == SdTokenAt(widx[w])

\* The call of worker w ends, returning or raising result.
Done(w, result) ==
    /\ pc' = [pc EXCEPT ![w] = "done"]
    /\ ret' = [ret EXCEPT ![w] = Some(result)]

\* Lines 158-171, with kept in hand: return the empty target or go on.
AfterKept(w, idx, kept) ==
    IF kept[1] = <<>>
    THEN Done(w, Returned(idx, EmptyTarget(idx, ImageSize(SdTokenAt(idx)))))
    ELSE /\ pc' = [pc EXCEPT ![w] = "mask_read"]
         /\ UNCHANGED ret

\* Lines 173-238, with instance_mask in hand.
AfterMask(w, instance_mask) ==
    Done(w, Returned(widx[w],
            FullTarget(widx[w], ImageSize(WSd(w)), object_anns_dict[WSd(w)],
                       wkept[w][1][1], wkept[w][1][2], instance_mask)))

\* Lines 129-156 up to the read of the kept cache.
Begin(w, idx) ==
    /\ pc[w] = "idle"
    /\ idx \in 0..(Length - 1)
    /\ widx' = [widx EXCEPT ![w] = idx]
    /\ IF ~has_ann
       THEN Done(w, ReturnedNone(idx)) /\ UNCHANGED wkept
       ELSE IF SdTokenAt(idx) \notin DOMAIN object_anns_dict
       THEN Done(w, Raised(idx, "KeyError")) /\ UNCHANGED wkept
       ELSE LET kept == KeptFor(SdTokenAt(idx), kept_cache)
            IN  /\ wkept' = [wkept EXCEPT ![w] = Some(kept)]
                /\ IF kept_cache[SdTokenAt(idx)] = None
                   THEN pc' = [pc EXCEPT ![w] = "kept_miss"] /\ UNCHANGED ret
                   ELSE AfterKept(w, idx, kept)
    /\ UNCHANGED <<dataset, caches, seqvars, rastvars, wmask>>

\* Line 154, after a miss.
WriteKept(w) ==
    /\ pc[w] = "kept_miss"
    /\ kept_cache' = StoreKept(kept_cache, WSd(w), wkept[w][1])
    /\ AfterKept(w, widx[w], wkept[w][1])
    /\ UNCHANGED <<dataset, inst_mask_cache, seqvars, rastvars, widx, wkept, wmask>>

\* Lines 205-208: the read of the mask cache.
ReadMask(w) ==
    /\ pc[w] = "mask_read"
    /\ IF inst_mask_cache[WSd(w)] = None
       THEN /\ wmask' = [wmask EXCEPT ![w] = Some(InstanceMaskFor(WSd(w), inst_mask_cache))]
            /\ pc' = [pc EXCEPT ![w] = "mask_miss"]
            /\ UNCHANGED ret
       ELSE /\ AfterMask(w, InstanceMaskFor(WSd(w), inst_mask_cache))
            /\ UNCHANGED wmask
    /\ UNCHANGED <<dataset, caches, seqvars, rastvars, widx, wkept>>

\* Line 210, after a miss, and the rest of the call.
WriteMask(w) ==
    /\ pc[w] = "mask_miss"
    /\ inst_mask_cache' = StoreInstanceMask(inst_mask_cache, WSd(w), wmask[w][1])
    /\ AfterMask(w, wmask[w][1])
    /\ UNCHANGED <<dataset, kept_cache, seqvars, rastvars, widx, wkept, wmask>>

\* The worker hands over what the call returned and is free for its next call.
Deliver(w) ==
    /\ pc[w] = "done"
    /\ pc' = [pc EXCEPT ![w] = "idle"]
    /\ widx' = [widx EXCEPT ![w] = 0]
    /\ wkept' = [wkept EXCEPT ![w] = None]
    /\ wmask' = [wmask EXCEPT ![w] = None]
    /\ ret' = [ret EXCEPT ![w] = None]
    /\ UNCHANGED <<dataset, caches, seqvars, rastvars>>

NextConc ==
    \E w \in Workers :
        \/ \E idx \in 0..(Length - 1) : Begin(w, idx)
        \/ WriteKept(w)
        \/ ReadMask(w)
        \/ WriteMask(w)
        \/ Deliver(w)

SpecConc == InitConc /\ [][NextConc]_vars

----------------------------------------------------------------------------
(* Properties of the sample builder: calls by a single caller.             *)

\* The raw annotations of image sd_token, as the database lists them.
RawAnns(sd_token) ==
    LET mine(o) == o.sample_data_token = sd_token
    IN  SelectSeq(nuimages.object_ann, mine)

\* The image the latest call was on, and what the call returned.
LastSd == SdTokenAt(last[1].idx)
LastIsTarget == last # None /\ last[1].kind = "Target"
LastTarget == last[1].target[1]

\* N is 0 in every per-object tensor of target t.
IsEmpty(t) ==
    /\ Len(t.boxes) = 0 /\ Len(t.labels) = 0 /\ Len(t.area) = 0
    /\ Len(t.iscrowd) = 0 /\ t.masks.shape[1] = 0 /\ Len(t.masks.rows) = 0

\* C1: in every Target a call returns, boxes, labels, masks, area and iscrowd
\* have the same leading dimension.
C1_ShapeConsistency ==
    LastIsTarget =>
        LET t == LastTarget
        IN  /\ Len(t.boxes) = Len(t.labels)
            /\ Len(t.labels) = t.masks.shape[1]
            /\ t.masks.shape[1] = Len(t.area)
            /\ Len(t.area) = Len(t.iscrowd)

\* C2: with remove_empty false, every image without raw annotations has an
\* index, and a call on it returns a Target with N = 0.  Stated for a database
\* that holds annotations: on one that holds none, every call returns the
\* image with no target at all.
C2_EmptyImageKept ==
    (~remove_empty /\ Len(nuimages.object_ann) > 0) =>
        /\ \A i \in 1..Len(nuimages.sample) :
              RawAnns(nuimages.sample[i].key_camera_token) = <<>>
                  => \E idx \in 0..(Length - 1) :
                        SdTokenAt(idx) = nuimages.sample[i].key_camera_token
        /\ (last # None /\ RawAnns(LastSd) = <<>>)
              => (LastIsTarget /\ IsEmpty(LastTarget))

\* The addressable samples are exactly the images with a raw annotation.
OnlyAnnotatedAddressable ==
    /\ Length = Cardinality({i \in 1..Len(nuimages.sample) :
                    RawAnns(nuimages.sample[i].key_camera_token) # <<>>})
    /\ \A idx \in 0..(Length - 1) : RawAnns(SdTokenAt(idx)) # <<>>

\* C3, as stated: with remove_empty true, length() counts the images that own
\* a raw annotation and no index resolves to an image without one.
C3_EmptyImagesDropped == remove_empty => OnlyAnnotatedAddressable

\* C3, amended: the same, for a database that holds at least one annotation.
C3_EmptyImagesDroppedIfAnnotated ==
    (remove_empty /\ Len(nuimages.object_ann) > 0) => OnlyAnnotatedAddressable

C3_Witness ==
    /\ remove_empty /\ Len(nuimages.object_ann) > 0
    /\ Length < Len(nuimages.sample)
    /\ last # None

\* C4: an annotation with a box of width <= 0 or height <= 0 supplies no row
\* of any Target, at a first or a repeated call, and a call on its image
\* raises nothing.
C4_DegenerateNeverKept ==
    last # None =>
        LET raw == RawAnns(LastSd)
            good == {i \in DOMAIN raw : raw[i].bbox[3] - raw[i].bbox[1] > 0
                                        /\ raw[i].bbox[4] - raw[i].bbox[2] > 0}
        IN  /\ (good # DOMAIN raw) => LastIsTarget
            /\ LastIsTarget =>
                 LET t == LastTarget
                 IN  /\ Len(t.boxes) <= Cardinality(good)
                     /\ Len(t.labels) <= Cardinality(good)
                     /\ Len(t.area) <= Cardinality(good)
                     /\ Len(t.masks.rows) <= Cardinality(good)
                     /\ \A j \in DOMAIN t.boxes :
                           \E i \in good : raw[i].bbox = t.boxes[j]
                     /\ \A j \in DOMAIN t.area : t.area[j] > 0
                     /\ \A j \in DOMAIN t.masks.rows :
                           \A px \in DOMAIN t.masks.rows[j] :
                              t.masks.rows[j][px] = 1 =>
                                 \E i \in good : /\ raw[i].mask # None
                                                 /\ px \in raw[i].mask[1]

\* Scenario B, at a repeated call: one proper and one degenerate box, N = 1.
C4_Witness ==
    /\ LastIsTarget /\ repeated
    /\ \E i, k \in DOMAIN RawAnns(LastSd) :
          /\ RawAnns(LastSd)[i].bbox \in BadBoxes
          /\ RawAnns(LastSd)[k].bbox \in GoodBoxes
    /\ Len(LastTarget.boxes) = 1
    /\ Len(LastTarget.masks.rows) = 1

\* C5: a later call on an index returns the boxes, labels, masks, area and
\* iscrowd that the first call on it returned.
C5_CachingIdempotent ==
    (last # None /\ repeated) =>
        LET f == first[last[1].idx][1]
        IN  /\ last[1].kind = f.kind
            /\ LastIsTarget =>
                 /\ LastTarget.boxes = f.target[1].boxes
                 /\ LastTarget.labels = f.target[1].labels
                 /\ LastTarget.masks = f.target[1].masks
                 /\ LastTarget.area = f.target[1].area
                 /\ LastTarget.iscrowd = f.target[1].iscrowd

\* A repeated call served from both caches, on an image with kept objects.
C5_Witness ==
    /\ LastIsTarget /\ repeated
    /\ Len(LastTarget.boxes) > 0
    /\ kept_cache[LastSd] # None
    /\ inst_mask_cache[LastSd] # None

\* The filtered annotations of the latest call's image, the empty list if
\* the image has none.
LastFiltered ==
    LET ok(o) == o.bbox[3] - o.bbox[1] > 0 /\ o.bbox[4] - o.bbox[2] > 0
    IN  SelectSeq(RawAnns(LastSd), ok)

\* C8: on a dataset with annotations, a call on an image none of whose
\* filtered annotations has a mapped category returns a Target with N = 0
\* and masks of shape (0, H, W), H and W the image's height and width.
C8_NothingKeptGivesEmptyTarget ==
    (/\ Len(nuimages.object_ann) > 0
     /\ last # None
     /\ \A i \in DOMAIN LastFiltered :
           cat_token_to_label[LastFiltered[i].category_token] = None)
    => /\ LastIsTarget
       /\ IsEmpty(LastTarget)
       /\ LastTarget.masks.shape = <<0, ImageSize(LastSd)[2], ImageSize(LastSd)[1]>>

\* C9: every pixel set in row j of masks lies in the decoded mask of the
\* annotation that supplied row j of boxes.
C9_MaskMatchesBox ==
    LastIsTarget =>
        LET t == LastTarget
            object_anns == object_anns_dict[LastSd]
            kept_indices == kept_cache[LastSd][1][1]
        IN  \A j \in DOMAIN t.masks.rows :
               \A px \in DOMAIN t.masks.rows[j] :
                  t.masks.rows[j][px] = 1 =>
                     LET ann == object_anns[kept_indices[j] + 1]
                     IN  ann.mask # None /\ px \in ann.mask[1]

----------------------------------------------------------------------------
(* Properties of the rasterizer.                                           *)

\* The latest rasterizer call.
RastAnns == rast[1].anns
RastLayer == rast[1].layer

\* C6: the rasterizer returns the same layer for every order of the same
\* annotation list.
C6_RasterOrderIndependent ==
    rast # None => RastLayer = rast_first[rast[1].sd_token][1].layer

\* Two calls on different orders of a list with overlapping masks.
C6_Witness ==
    /\ rast # None
    /\ RastAnns # rast_first[rast[1].sd_token][1].anns
    /\ \E i, k \in DOMAIN RastAnns :
          /\ i # k
          /\ RastAnns[i].mask # None /\ RastAnns[k].mask # None
          /\ RastAnns[i].mask[1] \cap RastAnns[k].mask[1] # {}

\* The position of annotation a among anns sorted by token.
Rank(a, anns) == Cardinality({k \in DOMAIN anns : anns[k].token <= a.token})

\* The reference layer at px: the largest position whose mask covers px.
Reference(anns, px) ==
    LET covering == {Rank(anns[k], anns) :
                        k \in {i \in DOMAIN anns : /\ anns[i].mask # None
                                                   /\ px \in anns[i].mask[1]}}
    IN  IF covering = {} THEN 0
        ELSE CHOOSE m \in covering : \A n \in covering : n <= m

\* C7: each pixel of the layer holds the largest token-sorted position whose
\* annotation has a mask covering it, 0 if none has.
C7_LayerIsReference ==
    rast # None => \A px \in DOMAIN RastLayer : RastLayer[px] = Reference(RastAnns, px)

\* Scenario D: a pixel under two masks holds the index of the later one.
C7_Witness ==
    /\ rast # None
    /\ \E px \in DOMAIN RastLayer :
          /\ \A i \in DOMAIN RastAnns :
                RastAnns[i].mask # None /\ px \in RastAnns[i].mask[1]
          /\ Len(RastAnns) >= 2
          /\ RastLayer[px] = Len(RastAnns)

----------------------------------------------------------------------------
(* Properties of concurrent calls.                                         *)

\* C10: under every interleaving, a finished call has returned what a call
\* on a fresh object by a single caller returns, and a filled cache entry
\* holds what a single caller would have put there.
C10_ConcurrentAsSequential ==
    /\ \A w \in Workers :
          pc[w] = "done" => ret[w] = Some(GetItemResult(widx[w], NoCache, NoCache))
    /\ \A sd \in SdTokens :
          /\ kept_cache[sd] # None =>
                /\ sd \in DOMAIN object_anns_dict
                /\ kept_cache[sd][1] =
                      ComputeKept(object_anns_dict[sd], cat_token_to_label)
          /\ inst_mask_cache[sd] # None =>
                /\ sd \in DOMAIN object_anns_dict
                /\ inst_mask_cache[sd][1] =
                      GetInstanceMask(ImageSize(sd), object_anns_dict[sd])

\* A first-access race: two workers on the same image both missed both caches,
\* both wrote them, and both returned a Target with objects.
C10_Witness ==
    \E v, w \in Workers :
        /\ v # w
        /\ pc[v] = "done" /\ pc[w] = "done"
        /\ widx[v] = widx[w]
        /\ wmask[v] # None /\ wmask[w] # None
        /\ ret[v][1].kind = "Target"
        /\ Len(ret[v][1].target[1].boxes) > 0

====
